---- MODULE Spec2Model ----
(***************************************************************************)
(* Model of the e-mail dispatch core of the real-estate agent scraper:     *)
(* EmailService (services/emailService.js), EmailSender (emailSender.js),  *)
(* isValidEmail (utils/emailUtils.js) and CSVService.getAgentsWithEmails.   *)
(*                                                                         *)
(* An e-mail address is a sequence of one-character strings, so that       *)
(* trim(), toLowerCase() and the validation regex are computed and not     *)
(* assumed.  Every await of the asynchronous handlers is a step boundary:  *)
(* pc names the await the sequential sender is suspended at.               *)
(***************************************************************************)
EXTENDS Integers, Sequences, FiniteSets, TLC

(* ------------------------------ bounds --------------------------------- *)
MaxDay == 2          \* calendar days the clock runs through
MaxAgents == 2       \* longest agents.csv content
MaxPerDay == 2       \* config.email.maxPerDay (MAX_EMAILS_PER_DAY), scaled down
MaxFaults == 1       \* process terminations plus failed ledger writes
MaxAdmin == 1        \* resetDailyCounter / clearEmailLog calls

(* ------------------------- program constants --------------------------- *)
RetryAttempts == 3   \* config.email.retryAttempts
BackoffBase == 5000  \* delay(5000 * attempt)
EmailDelay == 10000  \* config.email.delay
SubjectCount == 5    \* (subjectIndex + 1) % 5

(* ----------------------------- addresses ------------------------------- *)
AddrPlain == <<"a", "@", "b", ".", "c">>
AddrUpper == <<"A", "@", "b", ".", "c">>
AddrOther == <<"d", "@", "b", ".", "c">>
AddrBad   == <<"a", ".", "b">>
AddrBlank == <<" ">>

EmailPool == {AddrPlain, AddrUpper, AddrOther, AddrBad, AddrBlank}

(* addresses that occur in agents.csv, and addresses given to sendTestEmail *)
CsvPool == {AddrPlain, AddrUpper, AddrBad, AddrBlank}

TestPool == {AddrOther}

Days == 1..MaxDay

Min(a, b) == IF a < b THEN a ELSE b

Max(a, b) == IF a < b THEN b ELSE a

(* String.prototype.toLowerCase on the model's alphabet *)
LowerChar(c) == CASE c = "A" -> "a" [] c = "B" -> "b" [] c = "C" -> "c" [] c = "D" -> "d" [] OTHER -> c

ToLowerCase(s) == [i \in 1..Len(s) |-> LowerChar(s[i])]

RECURSIVE TrimLeft(_)
TrimLeft(s) == IF s # <<>> /\ Head(s) = " " THEN TrimLeft(Tail(s)) ELSE s

RECURSIVE TrimRight(_)
TrimRight(s) == IF s # <<>> /\ s[Len(s)] = " " THEN TrimRight(SubSeq(s, 1, Len(s) - 1)) ELSE s

(* String.prototype.trim *)
Trim(s) == TrimRight(TrimLeft(s))

(* one or more characters, none of them white space or "@": [^\s@]+ *)
NoSpaceAt(s, from, to) == from <= to /\ \A i \in from..to : s[i] # " " /\ s[i] # "@"

(* EMAIL_REGEX = /^[^\s@]+@[^\s@]+\.[^\s@]+$/ *)
EMAIL_REGEX(s) ==
  \E i \in 1..Len(s) : \E j \in 1..Len(s) :
     /\ i < j
     /\ s[i] = "@"
     /\ s[j] = "."
     /\ NoSpaceAt(s, 1, i - 1)
     /\ NoSpaceAt(s, i + 1, j - 1)
     /\ NoSpaceAt(s, j + 1, Len(s))

(* variant: the pattern test left out, any non-empty address accepted *)
isValidEmail_NoPattern(email) == email # <<>> /\ Trim(email) # <<>>

(* isValidEmail: email && EMAIL_REGEX.test(email.trim().toLowerCase()) *)
isValidEmail(email) == email # <<>> /\ EMAIL_REGEX(ToLowerCase(Trim(email)))

(* CSVService.getAgentsWithEmails: agent.email && agent.email.trim() !== '' *)
getAgentsWithEmails(agents) == SelectSeq(agents, LAMBDA a : a.email # <<>> /\ Trim(a.email) # <<>>)

RECURSIVE SeqsUpTo(_, _)
SeqsUpTo(S, n) ==
  IF n = 0 THEN {<<>>}
  ELSE LET shorter == SeqsUpTo(S, n - 1)
       IN shorter \cup {Append(q, x) : q \in {r \in shorter : Len(r) = n - 1}, x \in S}

AgentPool == {[email |-> e] : e \in CsvPool}

CsvContents == SeqsUpTo(AgentPool, MaxAgents)

(* --------------------------- scraped records --------------------------- *)
MaxRecs == 1         \* longest list one collector produces
MaxRuns == 2         \* ScraperOrchestrator.run calls

(* String.prototype.toUpperCase on the model's alphabet *)
UpperChar(c) ==
  CASE c = "a" -> "A" [] c = "b" -> "B" [] c = "c" -> "C" [] c = "d" -> "D"
    [] c = "n" -> "N" [] c = "o" -> "O" [] c = "y" -> "Y" [] OTHER -> c

ToUpperCase(s) == [i \in 1..Len(s) |-> UpperChar(s[i])]

RecAnn == [name |-> <<"A", "n">>, email |-> AddrPlain, city |-> <<"X">>, state |-> <<"N", "Y">>]

(* the same agent with the address in capitals *)
RecAnnUpper == [name |-> <<"A", "n">>, email |-> AddrUpper, city |-> <<"X">>, state |-> <<"N", "Y">>]

(* another agent of the same name, state written " ny" *)
RecNamesake == [name |-> <<"A", "n">>, email |-> AddrOther, city |-> <<"Y">>, state |-> <<" ", "n", "y">>]

(* an agent whose card shows no address *)
RecNoEmail == [name |-> <<"B", "o">>, email |-> <<>>, city |-> <<"Y">>, state |-> <<"N", "Y">>]

RecNoName == [name |-> <<>>, email |-> <<>>, city |-> <<"X">>, state |-> <<"N", "Y">>]

RecAbroad == [name |-> <<"B", "o">>, email |-> <<>>, city |-> <<"X">>, state |-> <<"O", "N">>]

RecordPool == {RecAnn, RecAnnUpper, RecNamesake, RecNoEmail, RecNoName, RecAbroad}

(* what a site can show to a scraper *)
RawLists == SeqsUpTo(RecordPool, MaxRecs)

(* isUSAgent: const usStates *)
usStates ==
  {
   <<"A", "L">>, <<"A", "K">>, <<"A", "Z">>, <<"A", "R">>, <<"C", "A">>, <<"C", "O">>, <<"C", "T">>, <<"D", "E">>, <<"F", "L">>, <<"G", "A">>,
   <<"H", "I">>, <<"I", "D">>, <<"I", "L">>, <<"I", "N">>, <<"I", "A">>, <<"K", "S">>, <<"K", "Y">>, <<"L", "A">>, <<"M", "E">>, <<"M", "D">>,
   <<"M", "A">>, <<"M", "I">>, <<"M", "N">>, <<"M", "S">>, <<"M", "O">>, <<"M", "T">>, <<"N", "E">>, <<"N", "V">>, <<"N", "H">>, <<"N", "J">>,
   <<"N", "M">>, <<"N", "Y">>, <<"N", "C">>, <<"N", "D">>, <<"O", "H">>, <<"O", "K">>, <<"O", "R">>, <<"P", "A">>, <<"R", "I">>, <<"S", "C">>,
   <<"S", "D">>, <<"T", "N">>, <<"T", "X">>, <<"U", "T">>, <<"V", "T">>, <<"V", "A">>, <<"W", "A">>, <<"W", "V">>, <<"W", "I">>, <<"W", "Y">>}

(* isUSAgent: usStates.includes(agent.state?.toUpperCase().trim()) *)
isUSAgent(agent) == Trim(ToUpperCase(agent.state)) \in usStates

(* cleanAgentData *)
cleanAgentData(agent) ==
  [name |-> Trim(agent.name), email |-> ToLowerCase(Trim(agent.email)),
   city |-> Trim(agent.city), state |-> Trim(agent.state)]

MapSeq(f(_), q) == [i \in 1..Len(q) |-> f(q[i])]

(* ZillowScraper.scrape / extractAgentsFromPage: the cards that pass        *)
(* isUSAgent, cleaned                                                      *)
ZillowScrape(cards) == MapSeq(cleanAgentData, SelectSeq(cards, isUSAgent))

(* what scraper.scrape() resolves with; RealtorScraper is not in the        *)
(* sources: it is taken to return the records of the site as they are      *)
scrapeValue(c, raw) == IF c = "Zillow" THEN ZillowScrape(raw) ELSE raw

(* ScraperOrchestrator.removeDuplicates (parallel): the key of a record *)
dedupKey(agent) == agent.email \o <<"-">> \o agent.name \o <<"-">> \o agent.city

(* ScraperOrchestrator.removeDuplicates (parallel): agents.filter with the  *)
(* set of keys seen                                                        *)
removeDuplicates(list) ==
  LET firstOfKey(i) == \A j \in 1..(i - 1) : dedupKey(list[j]) # dedupKey(list[i])
      keep == {i \in 1..Len(list) : firstOfKey(i)}
      F[i \in 0..Len(list)] ==
        IF i = 0 THEN <<>>
        ELSE IF i \in keep THEN Append(F[i - 1], list[i]) ELSE F[i - 1]
  IN F[Len(list)]

(* ScraperOrchestrator.removeDuplicates (sequential): a record is skipped   *)
(* when its lower-cased email or its lower-cased name was seen before      *)
RECURSIVE dedupScan(_, _, _, _)
dedupScan(list, seenEmails, seenNames, acc) ==
  IF list = <<>> THEN acc
  ELSE LET agent == Head(list)
           emailKey == ToLowerCase(agent.email)
           nameKey == ToLowerCase(agent.name)
       IN IF (emailKey # <<>> /\ emailKey \in seenEmails) \/ (nameKey # <<>> /\ nameKey \in seenNames)
          THEN dedupScan(Tail(list), seenEmails, seenNames, acc)
          ELSE dedupScan(Tail(list),
                         IF emailKey # <<>> THEN seenEmails \cup {emailKey} ELSE seenEmails,
                         IF nameKey # <<>> THEN seenNames \cup {nameKey} ELSE seenNames,
                         Append(acc, agent))

removeDuplicatesSeq(list) == dedupScan(list, {}, {}, <<>>)

(* CSVService.removeDuplicates: the rows with an email not seen before *)
RECURSIVE csvScan(_, _, _)
csvScan(list, seenEmails, acc) ==
  IF list = <<>> THEN acc
  ELSE LET agent == Head(list)
       IN IF agent.email # <<>> /\ ToLowerCase(agent.email) \notin seenEmails
          THEN csvScan(Tail(list), seenEmails \cup {ToLowerCase(agent.email)}, Append(acc, agent))
          ELSE csvScan(Tail(list), seenEmails, acc)

csvRemoveDuplicates(rows) == csvScan(rows, {}, <<>>)

(* ScraperOrchestrator.run: scraperPromises, in this order *)
Collectors == {"Realtor", "Zillow"}

Registration == <<"Realtor", "Zillow">>

(* variant: the outputs joined in the order the collectors finished *)
mergeResults_ByCompletion(values, order) ==
  IF Len(order) = 2 THEN values[order[1]] \o values[order[2]] ELSE <<>>

(* ScraperOrchestrator.run: results.forEach over the settled promises, in   *)
(* the order of scraperPromises                                            *)
mergeResults(values, order) == values[Registration[1]] \o values[Registration[2]]

(* the runScraper filter: agent && agent.name && isUSAgent(agent) *)
validAgent(agent) == agent.name # <<>> /\ isUSAgent(agent)

(* this.scrapers of the sequential orchestrator *)
Scrapers == <<"TestScraper">>

(* the two POST /api/email/send requests that may overlap *)
Requests == {1, 2}

(* ------------------------------- state --------------------------------- *)
VARIABLES
  today,          \* new Date().toDateString(), as a day number
  csv,            \* the rows of agents.csv
  sentEmails,     \* EmailService.sentEmails
  failedEmails,   \* EmailService.failedEmails
  dailyCount,     \* EmailService.dailyCount
  lastResetDate,  \* EmailService.lastResetDate
  disk,           \* logs/email_log.json: NoFile or the snapshot last written
  pc,             \* where the sender is suspended
  mode,           \* "bulk" (EmailSender.run) or "test" (sendTestEmail)
  agentsToEmail,  \* sendBulkEmails: agents.slice(0, limit)
  subjectIndex,   \* sendBulkEmails: let subjectIndex
  results,        \* sendBulkEmails: const results
  attempt,        \* sendEmailWithRetry: attempt
  pending,        \* sendEmailToAgent: const result
  runResult,      \* value returned by the last EmailSender.run / sendTestEmail
  calls,          \* transporter.sendMail calls made for the current candidate
  sleeps,         \* backoff delays slept for the current candidate
  entryCount,     \* dailyCount when the current sendEmailToAgent call was entered
  rolled,         \* the current call saw today # lastResetDate
  instSends,      \* successful sends per address by this instance since the last clear
  sentBefore,     \* addresses successfully sent to before the last process termination
  loadedSent,     \* addresses the snapshot recorded as sent when this process started
  sendsToday,     \* successful transport sends completed on the calendar day `today`
  hitLimit,       \* dailyCount reached maxPerDay during the current batch
  startLedger,    \* sentEmails \cup failedEmails when the current batch started
  prev,           \* candidate list of the previous run if it sent every candidate
  second,         \* the current run repeats prev on the ledger prev left
  faults,         \* terminations and failed writes so far
  admin,          \* resetDailyCounter / clearEmailLog calls so far
  writeFailed,    \* a ledger write of this process has failed
  batchCalls,     \* transporter.sendMail calls made by the current batch
  startDay,       \* the day the current batch started on (0: no batch)
  lastCallIdx,    \* position of the candidate of the last transport call (0: none)
  sinceLast,      \* delays begun since the last transport call of the batch
  variant,        \* the ScraperOrchestrator deployed: "parallel", "serverless", "sequential"
  store,          \* the rows of the record store (agents table / agents.csv)
  aggPc,          \* where ScraperOrchestrator.run is suspended
  cstate,         \* per collector of the parallel run: idle, running, returned, caught
  cvalue,         \* per collector: the value its promise was fulfilled with
  finishOrder,    \* the collectors of the current run in the order they finished
  mergedAgents,   \* parallel run: const agents, the list handed to removeDuplicates
  uniqueAgents,   \* the list removeDuplicates returned in the current run
  statsErrors,    \* parallel orchestrator: stats.errors.length
  allAgents,      \* sequential orchestrator: this.allAgents
  scraperIdx,     \* sequential run: position in this.scrapers
  aggRuns,        \* ScraperOrchestrator.run calls so far
  ovPc,           \* per overlapping request: where its run is suspended
  ovAgents,       \* per overlapping request: agentsToEmail
  ovDone,         \* per overlapping request: results.length
  ovAttempt,      \* per overlapping request: attempt of sendEmailWithRetry
  ovPending       \* per overlapping request: the transport outcome not yet recorded

svcVars == <<sentEmails, failedEmails, dailyCount, lastResetDate>>

runVars == <<pc, mode, agentsToEmail, subjectIndex, results, attempt, pending, runResult>>

callVars == <<calls, sleeps, entryCount, rolled>>

histVars == <<instSends, sentBefore, loadedSent, sendsToday, hitLimit, startLedger, prev, second, faults, admin>>

batchVars == <<batchCalls, startDay, lastCallIdx, sinceLast>>

aggVars == <<variant, store, aggPc, cstate, cvalue, finishOrder, mergedAgents, uniqueAgents,
             statsErrors, allAgents, scraperIdx, aggRuns>>

ovVars == <<ovPc, ovAgents, ovDone, ovAttempt, ovPending>>

senderVars == <<runVars, callVars, histVars, writeFailed, batchVars>>

vars == <<today, csv, svcVars, disk, senderVars, aggVars, ovVars>>

NoFile == [exists |-> FALSE]

NoResult == [none |-> TRUE]

NoPrev == <<[email |-> <<>>]>>

NoPending == [success |-> FALSE, reason |-> "none"]

ZeroSends == [e \in EmailPool |-> 0]

(* ------------------------- EmailService helpers ------------------------ *)

(* checkDailyLimit that moves the date on but keeps the stale counter *)
checkDailyLimit_NoReset(cnt, last, now) ==
  [dailyCount |-> cnt, lastResetDate |-> now, ok |-> cnt < MaxPerDay]

(* checkDailyLimit: the counter and date it leaves, and the value returned *)
checkDailyLimit(cnt, last, now) ==
  LET c == IF now # last THEN 0 ELSE cnt
  IN [dailyCount |-> c, lastResetDate |-> now, ok |-> c < MaxPerDay]

(* getEmailStats *)
getEmailStats ==
  [sentToday |-> dailyCount,
   dailyLimit |-> MaxPerDay,
   totalSent |-> Cardinality(sentEmails),
   totalFailed |-> Cardinality(failedEmails),
   remainingToday |-> Max(0, MaxPerDay - dailyCount)]

(* the log object saveEmailLog serialises *)
Snapshot(sent, failed, cnt, last) ==
  [exists |-> TRUE, sentEmails |-> sent, failedEmails |-> failed, dailyCount |-> cnt, lastResetDate |-> last]

(* variant: the failed addresses left out of the file *)
saveEmailLog_NoFailed(sent, failed, cnt, last, writeOk) ==
  IF writeOk THEN Snapshot(sent, {}, cnt, last) ELSE disk

(* saveEmailLog: the file after the call; a failed write is caught and logged *)
saveEmailLog(sent, failed, cnt, last, writeOk) ==
  IF writeOk THEN Snapshot(sent, failed, cnt, last) ELSE disk

(* loadEmailLog that forgets to restore the sent set *)
loadEmailLog_NoSent(file, now) ==
  IF file.exists
  THEN [sentEmails |-> {}, failedEmails |-> file.failedEmails,
        dailyCount |-> file.dailyCount, lastResetDate |-> file.lastResetDate]
  ELSE [sentEmails |-> {}, failedEmails |-> {}, dailyCount |-> 0, lastResetDate |-> now]

(* constructor + loadEmailLog: the fields of a new EmailService *)
loadEmailLog(file, now) ==
  IF file.exists
  THEN [sentEmails |-> file.sentEmails, failedEmails |-> file.failedEmails,
        dailyCount |-> file.dailyCount, lastResetDate |-> file.lastResetDate]
  ELSE [sentEmails |-> {}, failedEmails |-> {}, dailyCount |-> 0, lastResetDate |-> now]

(* sendEmailToAgent without the already-sent test *)
alreadySent_Never(email) == FALSE

(* sendEmailToAgent: if (this.sentEmails.has(agent.email)) *)
alreadySent(email) == email \in sentEmails

(* variant: the previously-failed test left out *)
previouslyFailed_Never(email) == FALSE

(* sendEmailToAgent: if (this.failedEmails.has(agent.email)) *)
previouslyFailed(email) == email \in failedEmails

(* retry test off by one: attempt <= retryAttempts *)
retryAgain_OffByOne(att) == att <= RetryAttempts

(* sendEmailWithRetry: if (attempt < config.email.retryAttempts) *)
retryAgain(att) == att < RetryAttempts

(* backoff that does not grow with the attempt number *)
backoffDelay_Flat(att) == BackoffBase

(* sendEmailWithRetry: await this.delay(5000 * attempt) *)
backoffDelay(att) == BackoffBase * att

(* break test off by one: dailyCount > maxPerDay *)
limitReachedDuringBulk_Off(cnt) == cnt > MaxPerDay

(* sendBulkEmails: if (this.dailyCount >= config.email.maxPerDay) break *)
limitReachedDuringBulk(cnt) == cnt >= MaxPerDay

(* variant: the in-memory mutation undone when the write fails *)
recordOutcome_RolledBack(email, success, writeOk) ==
  IF writeOk
  THEN [sentEmails |-> IF success THEN sentEmails \cup {email} ELSE sentEmails,
        failedEmails |-> IF success THEN failedEmails ELSE failedEmails \cup {email},
        dailyCount |-> IF success THEN dailyCount + 1 ELSE dailyCount]
  ELSE [sentEmails |-> sentEmails, failedEmails |-> failedEmails, dailyCount |-> dailyCount]

(* sendEmailToAgent, lines 81-90: the in-memory ledger after the outcome is  *)
(* recorded; the mutation precedes saveEmailLog and does not depend on     *)
(* whether the write succeeds                                              *)
recordOutcome(email, success, writeOk) ==
  [sentEmails |-> IF success THEN sentEmails \cup {email} ELSE sentEmails,
   failedEmails |-> IF success THEN failedEmails ELSE failedEmails \cup {email},
   dailyCount |-> IF success THEN dailyCount + 1 ELSE dailyCount]

(* variant: the delay applied after a successful send only *)
interSendDelays_SuccessOnly(success) == IF success THEN <<EmailDelay>> ELSE <<>>

(* sendEmailToAgent: await this.delay(config.email.delay), after a success  *)
(* and after a terminal failure alike                                      *)
interSendDelays(success) == <<EmailDelay>>

(* sendBulkEmails: the object returned *)
bulkResult(res) ==
  LET successCount == Cardinality({i \in 1..Len(res) : res[i].result.success})
  IN [total |-> Len(res), successful |-> successCount, failed |-> Len(res) - successCount, results |-> res]

CurAgent == agentsToEmail[Len(results) + 1]

(* ------------------------------ initial -------------------------------- *)
SenderIdle ==
  /\ pc = "idle"
  /\ mode = "bulk"
  /\ agentsToEmail = <<>>
  /\ subjectIndex = 0
  /\ results = <<>>
  /\ attempt = 1
  /\ pending = NoPending
  /\ runResult = NoResult
  /\ calls = 0
  /\ sleeps = <<>>
  /\ entryCount = 0
  /\ rolled = FALSE
  /\ instSends = ZeroSends
  /\ sentBefore = {}
  /\ loadedSent = {}
  /\ sendsToday = 0
  /\ hitLimit = FALSE
  /\ startLedger = {}
  /\ prev = NoPrev
  /\ second = FALSE
  /\ faults = 0
  /\ admin = 0
  /\ writeFailed = FALSE
  /\ batchCalls = 0
  /\ startDay = 0
  /\ lastCallIdx = 0
  /\ sinceLast = <<>>

(* a new EmailService with no ledger file *)
ServiceNew ==
  /\ sentEmails = {}
  /\ failedEmails = {}
  /\ dailyCount = 0
  /\ lastResetDate = 1
  /\ disk = NoFile

(* a new ScraperOrchestrator and an empty record store *)
AggNew ==
  /\ store = <<>>
  /\ aggPc = "idle"
  /\ cstate = [c \in Collectors |-> "idle"]
  /\ cvalue = [c \in Collectors |-> <<>>]
  /\ finishOrder = <<>>
  /\ mergedAgents = <<>>
  /\ uniqueAgents = <<>>
  /\ statsErrors = 0
  /\ allAgents = <<>>
  /\ scraperIdx = 0
  /\ aggRuns = 0

(* the collection side at rest while the sender is studied *)
AggIdle == variant = "parallel" /\ AggNew

(* no POST /api/email/send request in progress *)
OvIdle ==
  /\ ovPc = [r \in Requests |-> "idle"]
  /\ ovAgents = [r \in Requests |-> <<>>]
  /\ ovDone = [r \in Requests |-> 0]
  /\ ovAttempt = [r \in Requests |-> 1]
  /\ ovPending = [r \in Requests |-> FALSE]

Init ==
  /\ today = 1
  /\ csv \in CsvContents
  /\ ServiceNew
  /\ SenderIdle
  /\ AggIdle
  /\ OvIdle

(* ------------------------------ actions -------------------------------- *)

(* the clock passes midnight; it can do so while a send is in flight *)
NextDay ==
  /\ UNCHANGED <<aggVars, ovVars>>
  /\ today < MaxDay
  /\ today' = today + 1
  /\ sendsToday' = 0
  /\ UNCHANGED <<csv, svcVars, disk, runVars, callVars>>
  /\ UNCHANGED <<instSends, sentBefore, loadedSent, hitLimit, startLedger, prev, second, faults, admin>>
  /\ UNCHANGED <<writeFailed, batchVars>>

(* sendBulkEmails after sendEmailToAgent returned `result` (push, rotate,   *)
(* break test, loop end, return), or sendTestEmail returning it            *)
AfterReturn(result, cnt) ==
  LET res2 == Append(results, [agent |-> CurAgent, result |-> result])
  IN /\ results' = res2
     /\ IF mode = "bulk"
        THEN /\ subjectIndex' = (subjectIndex + 1) % SubjectCount
             /\ IF limitReachedDuringBulk(cnt) \/ Len(res2) = Len(agentsToEmail)
                THEN pc' = "done" /\ runResult' = bulkResult(res2)
                ELSE pc' = "loop" /\ runResult' = runResult
        ELSE /\ subjectIndex' = subjectIndex
             /\ pc' = "done"
             /\ runResult' = result

(* EmailSender.run up to the first await inside sendBulkEmails *)
Run(maxEmails) ==
  /\ UNCHANGED <<aggVars, ovVars>>
  /\ pc = "idle"
  /\ LET agents == getAgentsWithEmails(csv)
         emailStats == getEmailStats
         limit == IF maxEmails # 0 THEN maxEmails ELSE MaxPerDay
         slice == SubSeq(agents, 1, Min(limit, Len(agents)))
     IN IF Len(agents) = 0
        THEN /\ runResult' = [success |-> FALSE, reason |-> "No agents with emails"]
             /\ second' = FALSE
             /\ mode' = "bulk"
             /\ pc' = "done"
             /\ UNCHANGED <<agentsToEmail, subjectIndex, results, hitLimit, startLedger, startDay>>
        ELSE IF emailStats.remainingToday = 0
        THEN /\ runResult' = [success |-> FALSE, reason |-> "Daily limit reached"]
             /\ second' = (prev = slice)
             /\ mode' = "bulk"
             /\ pc' = "done"
             /\ UNCHANGED <<agentsToEmail, subjectIndex, results, hitLimit, startLedger, startDay>>
        ELSE /\ runResult' = NoResult
             /\ second' = (prev = slice)
             /\ mode' = "bulk"
             /\ agentsToEmail' = slice
             /\ subjectIndex' = 0
             /\ results' = <<>>
             /\ hitLimit' = FALSE
             /\ startLedger' = sentEmails \cup failedEmails
             /\ startDay' = today
             /\ pc' = "loop"
  /\ UNCHANGED <<today, csv, svcVars, disk, attempt, pending, callVars>>
  /\ UNCHANGED <<instSends, sentBefore, loadedSent, sendsToday, prev, faults, admin>>
  /\ UNCHANGED <<writeFailed, batchCalls, lastCallIdx, sinceLast>>

(* EmailSender.sendTestEmail up to the call of sendEmailToAgent *)
SendTestEmail(testEmail) ==
  /\ UNCHANGED <<aggVars, ovVars>>
  /\ pc = "idle"
  /\ testEmail # <<>>
  /\ mode' = "test"
  /\ agentsToEmail' = <<[email |-> testEmail]>>
  /\ subjectIndex' = 0
  /\ results' = <<>>
  /\ runResult' = NoResult
  /\ hitLimit' = FALSE
  /\ startLedger' = sentEmails \cup failedEmails
  /\ second' = FALSE
  /\ prev' = NoPrev
  /\ startDay' = today
  /\ pc' = "loop"
  /\ UNCHANGED <<today, csv, svcVars, disk, attempt, pending, callVars>>
  /\ UNCHANGED <<instSends, sentBefore, loadedSent, sendsToday, faults, admin>>
  /\ UNCHANGED <<writeFailed, batchCalls, lastCallIdx, sinceLast>>

(* sendEmailToAgent from its entry to the first transporter.sendMail, or   *)
(* to its early return                                                     *)
CallAgent ==
  /\ UNCHANGED <<aggVars, ovVars>>
  /\ pc = "loop"
  /\ LET email == CurAgent.email
         chk == checkDailyLimit(dailyCount, lastResetDate, today)
         skip(reason) ==
           /\ AfterReturn([success |-> FALSE, reason |-> reason], chk.dailyCount)
           /\ rolled' = FALSE
           /\ UNCHANGED <<attempt, calls, sleeps, entryCount>>
     IN /\ dailyCount' = chk.dailyCount
        /\ lastResetDate' = chk.lastResetDate
        /\ IF ~chk.ok THEN skip("Daily limit reached")
           ELSE IF ~isValidEmail(email) THEN skip("Invalid email")
           ELSE IF alreadySent(email) THEN skip("Already sent")
           ELSE IF previouslyFailed(email) THEN skip("Previously failed")
           ELSE /\ pc' = "sending"
                /\ attempt' = 1
                /\ calls' = 0
                /\ sleeps' = <<>>
                /\ entryCount' = dailyCount
                /\ rolled' = (today # lastResetDate)
                /\ UNCHANGED <<results, subjectIndex, runResult>>
  /\ UNCHANGED <<today, csv, sentEmails, failedEmails, disk, mode, agentsToEmail, pending, histVars>>
  /\ UNCHANGED <<writeFailed, batchVars>>

(* sendEmailWithRetry: transporter.sendMail resolves or rejects *)
TransportSend(ok) ==
  /\ UNCHANGED <<aggVars, ovVars>>
  /\ pc = "sending"
  /\ calls' = calls + 1
  /\ batchCalls' = batchCalls + 1
  /\ lastCallIdx' = Len(results) + 1
  /\ sinceLast' = IF ~ok /\ retryAgain(attempt) THEN <<backoffDelay(attempt)>> ELSE <<>>
  /\ IF ok
     THEN /\ pending' = [success |-> TRUE]
          /\ pc' = "record"
          /\ instSends' = [instSends EXCEPT ![CurAgent.email] = @ + 1]
          /\ sendsToday' = sendsToday + 1
          /\ sleeps' = sleeps
     ELSE /\ IF retryAgain(attempt)
             THEN /\ pc' = "backoff"
                  /\ sleeps' = Append(sleeps, backoffDelay(attempt))
                  /\ pending' = pending
             ELSE /\ pc' = "record"
                  /\ sleeps' = sleeps
                  /\ pending' = [success |-> FALSE, error |-> "send failed"]
          /\ UNCHANGED <<instSends, sendsToday>>
  /\ UNCHANGED <<today, csv, svcVars, disk, mode, agentsToEmail, subjectIndex, results, attempt, runResult>>
  /\ UNCHANGED <<entryCount, rolled, sentBefore, loadedSent, hitLimit, startLedger, prev, second, faults, admin>>
  /\ UNCHANGED <<writeFailed, startDay>>

(* sendEmailWithRetry: the backoff delay elapses and the recursive call starts *)
BackoffDone ==
  /\ UNCHANGED <<aggVars, ovVars>>
  /\ pc = "backoff"
  /\ attempt' = attempt + 1
  /\ pc' = "sending"
  /\ UNCHANGED <<today, csv, svcVars, disk, mode, agentsToEmail, subjectIndex, results, pending, runResult>>
  /\ UNCHANGED <<callVars, histVars, writeFailed, batchVars>>

(* sendEmailToAgent: the outcome is put into the ledger and saved *)
RecordOutcome(writeOk) ==
  /\ UNCHANGED <<aggVars, ovVars>>
  /\ pc = "record"
  /\ writeOk \/ faults < MaxFaults
  /\ faults' = IF writeOk THEN faults ELSE faults + 1
  /\ LET mem == recordOutcome(CurAgent.email, pending.success, writeOk)
     IN /\ sentEmails' = mem.sentEmails
        /\ failedEmails' = mem.failedEmails
        /\ dailyCount' = mem.dailyCount
        /\ disk' = saveEmailLog(mem.sentEmails, mem.failedEmails, mem.dailyCount, lastResetDate, writeOk)
        /\ hitLimit' = (hitLimit \/ (mode = "bulk" /\ mem.dailyCount >= MaxPerDay))
  /\ writeFailed' = (writeFailed \/ ~writeOk)
  /\ sinceLast' = sinceLast \o interSendDelays(pending.success)
  /\ pc' = "delay"
  /\ UNCHANGED <<today, csv, lastResetDate, mode, agentsToEmail, subjectIndex, results, attempt, pending, runResult>>
  /\ UNCHANGED <<callVars, instSends, sentBefore, loadedSent, sendsToday, startLedger, prev, second, admin>>
  /\ UNCHANGED <<batchCalls, startDay, lastCallIdx>>

(* sendEmailToAgent: the inter-send delay elapses and the result is returned; *)
(* the locals of the call are gone                                           *)
DelayDone ==
  /\ UNCHANGED <<aggVars, ovVars>>
  /\ pc = "delay"
  /\ AfterReturn(pending, dailyCount)
  /\ attempt' = 1
  /\ pending' = NoPending
  /\ calls' = 0
  /\ sleeps' = <<>>
  /\ entryCount' = 0
  /\ rolled' = FALSE
  /\ UNCHANGED <<today, csv, svcVars, disk, mode, agentsToEmail, histVars, writeFailed, batchVars>>

(* EmailSender.run / sendTestEmail: report, close the transport, hand the   *)
(* value in runResult to the caller; the locals of the run are gone        *)
Finish ==
  /\ UNCHANGED <<aggVars, ovVars>>
  /\ pc = "done"
  /\ pc' = "idle"
  /\ prev' = IF /\ mode = "bulk"
                /\ Len(results) = Len(agentsToEmail)
                /\ \A i \in 1..Len(results) : results[i].result.success
             THEN agentsToEmail ELSE NoPrev
  /\ second' = FALSE
  /\ hitLimit' = FALSE
  /\ startLedger' = {}
  /\ mode' = "bulk"
  /\ agentsToEmail' = <<>>
  /\ subjectIndex' = 0
  /\ results' = <<>>
  /\ runResult' = NoResult
  /\ batchCalls' = 0
  /\ startDay' = 0
  /\ lastCallIdx' = 0
  /\ sinceLast' = <<>>
  /\ UNCHANGED <<today, csv, svcVars, disk, attempt, pending>>
  /\ UNCHANGED <<callVars, instSends, sentBefore, loadedSent, sendsToday, faults, admin, writeFailed>>

(* variant: the daily reset also forgets the failed addresses *)
ResetDailyCounter_ForgetsFailed(writeOk) ==
  /\ UNCHANGED <<aggVars, ovVars>>
  /\ pc = "idle"
  /\ admin < MaxAdmin
  /\ writeOk \/ faults < MaxFaults
  /\ faults' = IF writeOk THEN faults ELSE faults + 1
  /\ admin' = admin + 1
  /\ dailyCount' = 0
  /\ lastResetDate' = today
  /\ failedEmails' = {}
  /\ disk' = saveEmailLog(sentEmails, {}, 0, today, writeOk)
  /\ prev' = NoPrev
  /\ second' = FALSE
  /\ writeFailed' = (writeFailed \/ ~writeOk)
  /\ UNCHANGED <<today, csv, sentEmails, runVars, callVars, batchVars>>
  /\ UNCHANGED <<instSends, sentBefore, loadedSent, sendsToday, hitLimit, startLedger>>

(* EmailService.resetDailyCounter *)
ResetDailyCounter(writeOk) ==
  /\ UNCHANGED <<aggVars, ovVars>>
  /\ pc = "idle"
  /\ admin < MaxAdmin
  /\ writeOk \/ faults < MaxFaults
  /\ faults' = IF writeOk THEN faults ELSE faults + 1
  /\ admin' = admin + 1
  /\ dailyCount' = 0
  /\ lastResetDate' = today
  /\ disk' = saveEmailLog(sentEmails, failedEmails, 0, today, writeOk)
  /\ prev' = NoPrev
  /\ second' = FALSE
  /\ writeFailed' = (writeFailed \/ ~writeOk)
  /\ UNCHANGED <<today, csv, sentEmails, failedEmails, runVars, callVars, batchVars>>
  /\ UNCHANGED <<instSends, sentBefore, loadedSent, sendsToday, hitLimit, startLedger>>

(* variant: failedEmails.clear() left out *)
ClearEmailLog_KeepsFailed(writeOk) ==
  /\ UNCHANGED <<aggVars, ovVars>>
  /\ pc = "idle"
  /\ admin < MaxAdmin
  /\ writeOk \/ faults < MaxFaults
  /\ faults' = IF writeOk THEN faults ELSE faults + 1
  /\ admin' = admin + 1
  /\ sentEmails' = {}
  /\ dailyCount' = 0
  /\ lastResetDate' = today
  /\ disk' = saveEmailLog({}, failedEmails, 0, today, writeOk)
  /\ instSends' = ZeroSends
  /\ loadedSent' = {}
  /\ prev' = NoPrev
  /\ second' = FALSE
  /\ writeFailed' = (writeFailed \/ ~writeOk)
  /\ UNCHANGED <<today, csv, failedEmails, runVars, callVars, batchVars>>
  /\ UNCHANGED <<sentBefore, sendsToday, hitLimit, startLedger>>

(* EmailService.clearEmailLog *)
ClearEmailLog(writeOk) ==
  /\ UNCHANGED <<aggVars, ovVars>>
  /\ pc = "idle"
  /\ admin < MaxAdmin
  /\ writeOk \/ faults < MaxFaults
  /\ faults' = IF writeOk THEN faults ELSE faults + 1
  /\ admin' = admin + 1
  /\ sentEmails' = {}
  /\ failedEmails' = {}
  /\ dailyCount' = 0
  /\ lastResetDate' = today
  /\ disk' = saveEmailLog({}, {}, 0, today, writeOk)
  /\ instSends' = ZeroSends
  /\ loadedSent' = {}
  /\ prev' = NoPrev
  /\ second' = FALSE
  /\ writeFailed' = (writeFailed \/ ~writeOk)
  /\ UNCHANGED <<today, csv, runVars, callVars, batchVars>>
  /\ UNCHANGED <<sentBefore, sendsToday, hitLimit, startLedger>>

(* the process terminates at any point; the next one constructs a new      *)
(* EmailService, whose constructor calls loadEmailLog                      *)
Restart ==
  /\ UNCHANGED <<aggVars, ovVars>>
  /\ faults < MaxFaults
  /\ faults' = faults + 1
  /\ LET svc == loadEmailLog(disk, today)
     IN /\ sentEmails' = svc.sentEmails
        /\ failedEmails' = svc.failedEmails
        /\ dailyCount' = svc.dailyCount
        /\ lastResetDate' = svc.lastResetDate
        /\ loadedSent' = IF disk.exists THEN disk.sentEmails ELSE {}
  /\ pc' = "idle"
  /\ mode' = "bulk"
  /\ agentsToEmail' = <<>>
  /\ subjectIndex' = 0
  /\ results' = <<>>
  /\ attempt' = 1
  /\ pending' = NoPending
  /\ runResult' = NoResult
  /\ calls' = 0
  /\ sleeps' = <<>>
  /\ entryCount' = 0
  /\ rolled' = FALSE
  /\ instSends' = ZeroSends
  /\ sentBefore' = sentBefore \cup {e \in EmailPool : instSends[e] > 0}
  /\ hitLimit' = FALSE
  /\ startLedger' = {}
  /\ prev' = NoPrev
  /\ second' = FALSE
  /\ writeFailed' = FALSE
  /\ batchCalls' = 0
  /\ startDay' = 0
  /\ lastCallIdx' = 0
  /\ sinceLast' = <<>>
  /\ UNCHANGED <<today, csv, disk, sendsToday, admin>>

Next ==
  \/ NextDay
  \/ \E maxEmails \in 0..MaxAgents : Run(maxEmails)
  \/ \E testEmail \in TestPool : SendTestEmail(testEmail)
  \/ CallAgent
  \/ \E ok \in BOOLEAN : TransportSend(ok)
  \/ BackoffDone
  \/ \E writeOk \in BOOLEAN : RecordOutcome(writeOk)
  \/ DelayDone
  \/ Finish
  \/ \E writeOk \in BOOLEAN : ResetDailyCounter(writeOk)
  \/ \E writeOk \in BOOLEAN : ClearEmailLog(writeOk)
  \/ Restart

Spec == Init /\ [][Next]_vars

(* ------------------- a campaign of repeated requests ------------------- *)

(* maxEmails of every POST /api/email/send of the campaign *)
LiveCap == 1

(* agents.csv lists more addressed agents than one request may take *)
LiveInit ==
  /\ today = 1
  /\ csv \in {c \in CsvContents : Len(getAgentsWithEmails(c)) > LiveCap}
  /\ ServiceNew
  /\ SenderIdle
  /\ AggIdle
  /\ OvIdle

(* the transport and the ledger file keep working *)
LiveNext ==
  \/ NextDay
  \/ Run(LiveCap)
  \/ CallAgent
  \/ TransportSend(TRUE)
  \/ RecordOutcome(TRUE)
  \/ DelayDone
  \/ Finish

(* the days go by, the operator sends the request again whenever the       *)
(* sender is idle, and the event loop resumes every awaited continuation   *)
LiveFairness ==
  /\ WF_vars(NextDay)
  /\ WF_vars(Run(LiveCap))
  /\ WF_vars(CallAgent)
  /\ WF_vars(TransportSend(TRUE))
  /\ WF_vars(RecordOutcome(TRUE))
  /\ WF_vars(DelayDone)
  /\ WF_vars(Finish)

LiveSpec == LiveInit /\ [][LiveNext]_vars /\ LiveFairness

(* --------- two POST /api/email/send requests on one EmailSender --------- *)

(* the candidate request r is working on *)
OvCur(r) == ovAgents[r][ovDone[r] + 1]

(* sendBulkEmails of request r after sendEmailToAgent returned: push, break *)
(* test on this.dailyCount (value cnt), loop end                           *)
OvAfterReturn(r, cnt) ==
  /\ ovDone' = [ovDone EXCEPT ![r] = @ + 1]
  /\ ovPc' = [ovPc EXCEPT ![r] = IF limitReachedDuringBulk(cnt) \/ ovDone[r] + 1 = Len(ovAgents[r])
                                  THEN "done" ELSE "loop"]

(* EmailSender.run of request r up to the first await inside sendBulkEmails *)
OvRun(r, maxEmails) ==
  /\ ovPc[r] = "idle"
  /\ LET agents == getAgentsWithEmails(csv)
         emailStats == getEmailStats
         limit == IF maxEmails # 0 THEN maxEmails ELSE MaxPerDay
         slice == SubSeq(agents, 1, Min(limit, Len(agents)))
     IN IF Len(agents) = 0 \/ emailStats.remainingToday = 0
        THEN /\ ovPc' = [ovPc EXCEPT ![r] = "done"]
             /\ ovAgents' = [ovAgents EXCEPT ![r] = <<>>]
        ELSE /\ ovPc' = [ovPc EXCEPT ![r] = "loop"]
             /\ ovAgents' = [ovAgents EXCEPT ![r] = slice]
  /\ ovDone' = [ovDone EXCEPT ![r] = 0]
  /\ ovAttempt' = [ovAttempt EXCEPT ![r] = 1]
  /\ ovPending' = [ovPending EXCEPT ![r] = FALSE]
  /\ UNCHANGED <<today, csv, svcVars, disk, senderVars, aggVars>>

(* sendEmailToAgent of request r from its entry to the first                *)
(* transporter.sendMail, or to its early return                            *)
OvCallAgent(r) ==
  /\ ovPc[r] = "loop"
  /\ LET email == OvCur(r).email
         chk == checkDailyLimit(dailyCount, lastResetDate, today)
     IN /\ dailyCount' = chk.dailyCount
        /\ lastResetDate' = chk.lastResetDate
        /\ IF \/ ~chk.ok
              \/ ~isValidEmail(email)
              \/ alreadySent(email)
              \/ previouslyFailed(email)
           THEN /\ OvAfterReturn(r, chk.dailyCount)
                /\ UNCHANGED ovAttempt
           ELSE /\ ovPc' = [ovPc EXCEPT ![r] = "sending"]
                /\ ovAttempt' = [ovAttempt EXCEPT ![r] = 1]
                /\ UNCHANGED ovDone
  /\ UNCHANGED <<today, csv, sentEmails, failedEmails, disk, senderVars, aggVars, ovAgents, ovPending>>

(* sendEmailWithRetry of request r: transporter.sendMail resolves or rejects *)
OvTransportSend(r, ok) ==
  /\ ovPc[r] = "sending"
  /\ IF ok
     THEN /\ ovPending' = [ovPending EXCEPT ![r] = TRUE]
          /\ ovPc' = [ovPc EXCEPT ![r] = "record"]
          /\ instSends' = [instSends EXCEPT ![OvCur(r).email] = @ + 1]
     ELSE /\ ovPending' = [ovPending EXCEPT ![r] = FALSE]
          /\ ovPc' = [ovPc EXCEPT ![r] = IF retryAgain(ovAttempt[r]) THEN "backoff" ELSE "record"]
          /\ UNCHANGED instSends
  /\ UNCHANGED <<today, csv, svcVars, disk, runVars, callVars, writeFailed, batchVars, aggVars>>
  /\ UNCHANGED <<sentBefore, loadedSent, sendsToday, hitLimit, startLedger, prev, second, faults, admin>>
  /\ UNCHANGED <<ovAgents, ovDone, ovAttempt>>

(* sendEmailWithRetry of request r: the backoff delay elapses *)
OvBackoffDone(r) ==
  /\ ovPc[r] = "backoff"
  /\ ovAttempt' = [ovAttempt EXCEPT ![r] = @ + 1]
  /\ ovPc' = [ovPc EXCEPT ![r] = "sending"]
  /\ UNCHANGED <<today, csv, svcVars, disk, senderVars, aggVars, ovAgents, ovDone, ovPending>>

(* sendEmailToAgent of request r: the outcome is put into the ledger and saved *)
OvRecordOutcome(r) ==
  /\ ovPc[r] = "record"
  /\ LET mem == recordOutcome(OvCur(r).email, ovPending[r], TRUE)
     IN /\ sentEmails' = mem.sentEmails
        /\ failedEmails' = mem.failedEmails
        /\ dailyCount' = mem.dailyCount
        /\ disk' = saveEmailLog(mem.sentEmails, mem.failedEmails, mem.dailyCount, lastResetDate, TRUE)
  /\ ovPc' = [ovPc EXCEPT ![r] = "delay"]
  /\ UNCHANGED <<today, csv, lastResetDate, senderVars, aggVars, ovAgents, ovDone, ovAttempt, ovPending>>

(* sendEmailToAgent of request r: the inter-send delay elapses, the result  *)
(* is returned to the loop of sendBulkEmails                               *)
OvDelayDone(r) ==
  /\ ovPc[r] = "delay"
  /\ OvAfterReturn(r, dailyCount)
  /\ ovAttempt' = [ovAttempt EXCEPT ![r] = 1]
  /\ ovPending' = [ovPending EXCEPT ![r] = FALSE]
  /\ UNCHANGED <<today, csv, svcVars, disk, senderVars, aggVars, ovAgents>>

(* EmailSender.run of request r: report, close, respond *)
OvFinish(r) ==
  /\ ovPc[r] = "done"
  /\ ovPc' = [ovPc EXCEPT ![r] = "idle"]
  /\ ovAgents' = [ovAgents EXCEPT ![r] = <<>>]
  /\ ovDone' = [ovDone EXCEPT ![r] = 0]
  /\ UNCHANGED <<today, csv, svcVars, disk, senderVars, aggVars, ovAttempt, ovPending>>

OverlapInit ==
  /\ today = 1
  /\ csv \in CsvContents
  /\ ServiceNew
  /\ SenderIdle
  /\ AggIdle
  /\ OvIdle

OverlapNext ==
  \E r \in Requests :
     \/ \E maxEmails \in 0..MaxAgents : OvRun(r, maxEmails)
     \/ OvCallAgent(r)
     \/ \E ok \in BOOLEAN : OvTransportSend(r, ok)
     \/ OvBackoffDone(r)
     \/ OvRecordOutcome(r)
     \/ OvDelayDone(r)
     \/ OvFinish(r)

OverlapSpec == OverlapInit /\ [][OverlapNext]_vars

(* ------------------------- ScraperOrchestrator -------------------------- *)

nonAggVars == <<today, csv, svcVars, disk, senderVars, ovVars>>

(* runRealtorScraping / runZillowScraping catch what scraper.scrape()       *)
(* throws and return []: the promise given to Promise.allSettled is        *)
(* fulfilled in both cases                                                 *)
promiseStatus(st) == IF st \in {"returned", "caught"} THEN "fulfilled" ELSE "pending"

(* ScraperOrchestrator.run (parallel) up to its first await *)
OrchestratorRun ==
  /\ aggPc = "idle"
  /\ variant \in {"parallel", "serverless"}
  /\ aggRuns < MaxRuns
  /\ aggRuns' = aggRuns + 1
  /\ finishOrder' = <<>>
  /\ mergedAgents' = <<>>
  /\ uniqueAgents' = <<>>
  /\ cvalue' = [c \in Collectors |-> <<>>]
  /\ IF variant = "serverless"
     THEN aggPc' = "testScraping" /\ cstate' = [c \in Collectors |-> "idle"]
     ELSE aggPc' = "scraping" /\ cstate' = [c \in Collectors |-> "running"]
  /\ UNCHANGED <<variant, store, statsErrors, allAgents, scraperIdx, nonAggVars>>

(* serverless: return await this.runTestScraping() *)
TestScrapingDone ==
  /\ aggPc = "testScraping"
  /\ aggPc' = "idle"
  /\ UNCHANGED <<variant, store, cstate, cvalue, finishOrder, mergedAgents, uniqueAgents>>
  /\ UNCHANGED <<statsErrors, allAgents, scraperIdx, aggRuns, nonAggVars>>

(* scraper.scrape() of collector c resolves *)
CollectorReturns(c, raw) ==
  /\ aggPc = "scraping"
  /\ cstate[c] = "running"
  /\ cstate' = [cstate EXCEPT ![c] = "returned"]
  /\ cvalue' = [cvalue EXCEPT ![c] = scrapeValue(c, raw)]
  /\ finishOrder' = Append(finishOrder, c)
  /\ UNCHANGED <<variant, store, aggPc, mergedAgents, uniqueAgents>>
  /\ UNCHANGED <<statsErrors, allAgents, scraperIdx, aggRuns, nonAggVars>>

(* variant: no catch around scrape() and Promise.all in place of            *)
(* Promise.allSettled: the rejection ends run through its catch            *)
CollectorThrows_Aborts(c) ==
  /\ aggPc = "scraping"
  /\ cstate[c] = "running"
  /\ cstate' = [cstate EXCEPT ![c] = "caught"]
  /\ cvalue' = [cvalue EXCEPT ![c] = <<>>]
  /\ finishOrder' = Append(finishOrder, c)
  /\ statsErrors' = statsErrors + 1
  /\ aggPc' = "idle"
  /\ UNCHANGED <<variant, store, mergedAgents, uniqueAgents>>
  /\ UNCHANGED <<allAgents, scraperIdx, aggRuns, nonAggVars>>

(* scraper.scrape() of collector c rejects; the catch returns [] *)
CollectorThrows(c) ==
  /\ aggPc = "scraping"
  /\ cstate[c] = "running"
  /\ cstate' = [cstate EXCEPT ![c] = "caught"]
  /\ cvalue' = [cvalue EXCEPT ![c] = <<>>]
  /\ finishOrder' = Append(finishOrder, c)
  /\ UNCHANGED <<variant, store, aggPc, mergedAgents, uniqueAgents>>
  /\ UNCHANGED <<statsErrors, allAgents, scraperIdx, aggRuns, nonAggVars>>

(* await Promise.allSettled resumes: results.forEach, removeDuplicates,     *)
(* up to await this.csvService.addAgents                                   *)
AllSettled ==
  /\ aggPc = "scraping"
  /\ \A c \in Collectors : cstate[c] # "running"
  /\ LET merged == mergeResults(cvalue, finishOrder)
     IN /\ mergedAgents' = merged
        /\ uniqueAgents' = removeDuplicates(merged)
  /\ statsErrors' = statsErrors + Cardinality({c \in Collectors : promiseStatus(cstate[c]) = "rejected"})
  /\ aggPc' = "saving"
  /\ UNCHANGED <<variant, store, cstate, cvalue, finishOrder, allAgents, scraperIdx, aggRuns, nonAggVars>>

(* AgentService.addAgents: the insert succeeds, or fails and run's catch    *)
(* pushes error.message and rethrows                                       *)
AddAgents(ok) ==
  /\ aggPc = "saving"
  /\ store' = IF ok THEN store \o uniqueAgents ELSE store
  /\ statsErrors' = IF ok THEN statsErrors ELSE statsErrors + 1
  /\ aggPc' = "idle"
  /\ UNCHANGED <<variant, cstate, cvalue, finishOrder, mergedAgents, uniqueAgents>>
  /\ UNCHANGED <<allAgents, scraperIdx, aggRuns, nonAggVars>>

(* ScraperOrchestrator.run (sequential) up to the first runScraper *)
SeqRun ==
  /\ aggPc = "idle"
  /\ variant = "sequential"
  /\ aggRuns < MaxRuns
  /\ aggRuns' = aggRuns + 1
  /\ scraperIdx' = 1
  /\ uniqueAgents' = <<>>
  /\ aggPc' = "scraper"
  /\ UNCHANGED <<variant, store, cstate, cvalue, finishOrder, mergedAgents>>
  /\ UNCHANGED <<statsErrors, allAgents, nonAggVars>>

(* runScraper: scrape() resolves, the records are filtered, cleaned and     *)
(* pushed; or it rejects and the catch logs                                *)
RunScraper(raw, threw) ==
  /\ aggPc = "scraper"
  /\ allAgents' = IF threw THEN allAgents
                  ELSE allAgents \o MapSeq(cleanAgentData, SelectSeq(raw, validAgent))
  /\ scraperIdx' = scraperIdx + 1
  /\ aggPc' = IF scraperIdx = Len(Scrapers) THEN "process" ELSE "scraper"
  /\ UNCHANGED <<variant, store, cstate, cvalue, finishOrder, mergedAgents, uniqueAgents>>
  /\ UNCHANGED <<statsErrors, aggRuns, nonAggVars>>

(* processResults: removeDuplicates, writeAgentsToCSV (overwrite); a failed *)
(* write makes processResults and run throw                                *)
ProcessResults(writeOk) ==
  /\ aggPc = "process"
  /\ LET unique == removeDuplicatesSeq(allAgents)
     IN /\ uniqueAgents' = unique
        /\ store' = IF writeOk THEN unique ELSE store
        /\ allAgents' = IF writeOk THEN unique ELSE allAgents
  /\ scraperIdx' = 0
  /\ aggPc' = "idle"
  /\ UNCHANGED <<variant, cstate, cvalue, finishOrder, mergedAgents>>
  /\ UNCHANGED <<statsErrors, aggRuns, nonAggVars>>

(* POST /api/csv/remove-duplicates: AgentService.removeDuplicates is a      *)
(* placeholder that returns true; CSVService.removeDuplicates rewrites the *)
(* file when rows were dropped                                             *)
StoreRemoveDuplicates(writeOk) ==
  /\ aggPc = "idle"
  /\ store' = IF variant = "sequential"
              THEN LET unique == csvRemoveDuplicates(store)
                   IN IF Len(unique) < Len(store) /\ writeOk THEN unique ELSE store
              ELSE store
  /\ UNCHANGED <<variant, aggPc, cstate, cvalue, finishOrder, mergedAgents, uniqueAgents>>
  /\ UNCHANGED <<statsErrors, allAgents, scraperIdx, aggRuns, nonAggVars>>

AggInit ==
  /\ today = 1
  /\ csv = <<>>
  /\ ServiceNew
  /\ SenderIdle
  /\ OvIdle
  /\ variant \in {"parallel", "serverless", "sequential"}
  /\ AggNew

AggNext ==
  \/ OrchestratorRun
  \/ TestScrapingDone
  \/ \E c \in Collectors : \E raw \in RawLists : CollectorReturns(c, raw)
  \/ \E c \in Collectors : CollectorThrows(c)
  \/ AllSettled
  \/ \E ok \in BOOLEAN : AddAgents(ok)
  \/ SeqRun
  \/ \E raw \in RawLists : \E threw \in BOOLEAN : RunScraper(raw, threw)
  \/ \E writeOk \in BOOLEAN : ProcessResults(writeOk)
  \/ \E writeOk \in BOOLEAN : StoreRemoveDuplicates(writeOk)

AggSpec == AggInit /\ [][AggNext]_vars

(* ------------------------------- claims -------------------------------- *)

Reason(r) == IF "reason" \in DOMAIN r THEN r.reason ELSE ""

Ledger == sentEmails \cup failedEmails

InCall == pc \in {"sending", "backoff", "record", "delay"}

DailyLimitRefusal == [success |-> FALSE, reason |-> "Daily limit reached"]

(* C1: one EmailService, no clearEmailLog in between: no address gets more  *)
(* than one successful transport send, and no transport call is made or    *)
(* pending for an address that is in sentEmails.                           *)
C1_AtMostOneSend ==
  /\ \A e \in EmailPool : instSends[e] <= 1
  /\ pc \in {"sending", "backoff"} => CurAgent.email \notin sentEmails

(* a candidate that this instance had sent to came up again and was skipped *)
C1_Witness ==
  /\ pc \in {"loop", "done"}
  /\ \E i \in 1..Len(results) :
       /\ Reason(results[i].result) = "Already sent"
       /\ instSends[results[i].agent.email] = 1

(* C2: dailyCount <= maxPerDay in every state; once dailyCount has reached  *)
(* maxPerDay inside a batch the batch only finishes the inter-send delay   *)
(* and returns (no further sendEmailToAgent or transport call), and the    *)
(* candidates it did not reach get no ledger entry from it.                *)
C2_QuotaInvariant ==
  /\ dailyCount <= MaxPerDay
  /\ hitLimit => pc \in {"delay", "done"}
  /\ (hitLimit /\ pc = "done") =>
       \A j \in (Len(results) + 1)..Len(agentsToEmail) :
          agentsToEmail[j].email \in Ledger =>
             \/ agentsToEmail[j].email \in startLedger
             \/ \E i \in 1..Len(results) : results[i].agent.email = agentsToEmail[j].email

(* a batch halted at the limit with a valid, still PENDING candidate left *)
C2_Witness ==
  /\ hitLimit
  /\ pc = "done"
  /\ dailyCount = MaxPerDay
  /\ Len(results) < Len(agentsToEmail)
  /\ isValidEmail(agentsToEmail[Len(results) + 1].email)
  /\ agentsToEmail[Len(results) + 1].email \notin Ledger

(* C3 (as claimed): a run that repeats a fully successful run on the ledger *)
(* that run left reports every candidate as 'Already sent', whatever       *)
(* dailyCount the first run left.  Stated for operation without            *)
(* termination or failed write.                                            *)
C3_SecondRunAllAlreadySent ==
  (second /\ pc = "done" /\ faults = 0) =>
     /\ "results" \in DOMAIN runResult
     /\ runResult.total = Len(prev)
     /\ \A i \in 1..Len(runResult.results) : Reason(runResult.results[i].result) = "Already sent"

(* C4 (as claimed): after a termination and a reload no address that had a  *)
(* successful transport send before the termination gets another one.      *)
C4_NoResendAfterRestart ==
  admin = 0 => \A e \in sentBefore : instSends[e] = 0

(* C4 (amended): an address the loaded snapshot records as sent gets no     *)
(* transport send from the process that loaded it.                         *)
C4_NoResendOfPersisted ==
  /\ \A e \in loadedSent : instSends[e] = 0
  /\ pc \in {"sending", "backoff"} => CurAgent.email \notin loadedSent

(* after a restart a candidate found in the loaded snapshot was skipped *)
C4_Witness ==
  /\ pc \in {"loop", "done"}
  /\ \E i \in 1..Len(results) :
       /\ Reason(results[i].result) = "Already sent"
       /\ results[i].agent.email \in loadedSent
       /\ results[i].agent.email \in sentBefore

(* C5: a delivery that ends in failure made exactly retryAttempts transport *)
(* calls, all of them failed, and the address enters failedEmails only     *)
(* after the last of them.                                                 *)
C5_RetryBound ==
  /\ (pc \in {"record", "delay"} /\ ~pending.success) => calls = RetryAttempts
  /\ pc \in {"sending", "backoff", "record"} => CurAgent.email \notin failedEmails
  /\ pc \in {"sending", "backoff"} => calls < RetryAttempts
  /\ (pc = "delay" /\ ~pending.success) => CurAgent.email \in failedEmails

(* a recipient whose every attempt failed has just been recorded FAILED *)
C5_Witness ==
  /\ pc = "delay"
  /\ ~pending.success
  /\ calls = RetryAttempts
  /\ CurAgent.email \in failedEmails

C7_RolloverBeforeIncrement ==
  /\ []((rolled /\ pc \in {"sending", "backoff", "record"}) => dailyCount = 0)
  /\ []((rolled /\ pc = "delay" /\ pending.success) => dailyCount = 1)
  /\ [][(pc = "loop" /\ today' = today /\ faults' = faults /\ today # lastResetDate)
          => (lastResetDate' = today /\ dailyCount' = 0)]_vars

(* a send on a new day that started from a full stored counter *)
C7_Witness ==
  /\ rolled
  /\ entryCount = MaxPerDay
  /\ pc = "delay"
  /\ pending.success
  /\ dailyCount = 1
  /\ lastResetDate = today

(* C8 (as claimed): with a full counter stored under an earlier date,       *)
(* getEmailStats reports the whole quota as remaining and EmailSender.run  *)
(* is not refused with 'Daily limit reached'.  Stated for operation        *)
(* without termination or failed write; from "idle" only Run leads to      *)
(* "done" in one step.                                                     *)
C8_ReadRollsOver ==
  [][(pc = "idle" /\ faults = 0 /\ lastResetDate < today /\ dailyCount = MaxPerDay /\ pc' = "done")
       => (getEmailStats.remainingToday = MaxPerDay /\ runResult' # DailyLimitRefusal)]_vars

(* C9 (as claimed): without reset, clear, termination or failed write, the  *)
(* successful transport sends completed on one calendar day never exceed   *)
(* maxPerDay.                                                              *)
C9_DailyCap ==
  (admin = 0 /\ faults = 0) => sendsToday <= MaxPerDay

(* C10 (as claimed): a batch result returned after a quota halt that left   *)
(* candidates unprocessed is marked partial.  Stated for operation without *)
(* termination or failed write.                                            *)
C10_PartialFlag ==
  (pc = "done" /\ mode = "bulk" /\ faults = 0 /\ hitLimit /\ Len(results) < Len(agentsToEmail)) =>
     ("partial" \in DOMAIN runResult /\ runResult.partial)

(* the reason a ledger skip reports for an address *)
LedgerReason(email) == IF email \in sentEmails THEN "Already sent" ELSE "Previously failed"

(* C11 (as claimed): a sendEmailToAgent call for an address that is in      *)
(* sentEmails or failedEmails returns the skip with the matching reason,   *)
(* makes no transport call, starts no delay, and leaves sentEmails,        *)
(* failedEmails, dailyCount and the ledger file as they were.  Stated for  *)
(* a call on the day of lastResetDate, without termination or failed write.*)
C11_LedgerSkipChangesNothing ==
  [][(pc = "loop" /\ faults = 0 /\ faults' = faults /\ today' = today
        /\ today = lastResetDate /\ CurAgent.email \in Ledger)
       => /\ pc' \in {"loop", "done"}
          /\ Len(results') = Len(results) + 1
          /\ Reason(results'[Len(results')].result) = LedgerReason(CurAgent.email)
          /\ UNCHANGED <<sentEmails, failedEmails, dailyCount, disk, batchCalls, sinceLast>>]_vars

(* C12: an address in sentEmails stays in sentEmails and an address in      *)
(* failedEmails stays in failedEmails, and neither enters the other set,   *)
(* across every step of one EmailService other than clearEmailLog:         *)
(* resetDailyCounter, the day rollover and further runs included.  (The    *)
(* termination of the process is not an operation of the service; the next *)
(* process holds what the ledger file held.)                               *)
C12_TerminalStates ==
  [][\/ \E w \in BOOLEAN : ClearEmailLog(w)
     \/ Restart
     \/ /\ sentEmails \subseteq sentEmails'
        /\ failedEmails \subseteq failedEmails'
        /\ sentEmails \cap failedEmails' = {}
        /\ failedEmails \cap sentEmails' = {}]_vars

(* a later day, after an administrative call: a run skips an address that  *)
(* failed before the run as previously failed, next to a sent one          *)
C12_Witness ==
  /\ admin = 1
  /\ today = MaxDay
  /\ lastResetDate = today
  /\ sentEmails # {}
  /\ \E i \in 1..Len(results) :
        /\ Reason(results[i].result) = "Previously failed"
        /\ results[i].agent.email \in failedEmails \cap startLedger

(* the addresses of EmailPool that have the shape local@domain.tld *)
WellFormed == {AddrPlain, AddrUpper, AddrOther}

(* the list EmailSender.run passes to sendBulkEmails *)
Candidates == getAgentsWithEmails(csv)

ValidCandidates == {i \in 1..Len(Candidates) : Candidates[i].email \in WellFormed}

Succeeded == {i \in 1..Len(results) : results[i].result.success}

(* a finished batch over distinct addresses that started from an empty     *)
(* ledger and in which every transport call succeeded                      *)
FreshBatchAllDelivered ==
  /\ pc = "done"
  /\ mode = "bulk"
  /\ admin = 0
  /\ faults = 0
  /\ startLedger = {}
  /\ \A i, j \in 1..Len(Candidates) : Candidates[i].email = Candidates[j].email => i = j
  /\ \A i \in 1..Len(results) : "error" \notin DOMAIN results[i].result
  /\ batchCalls = Cardinality(Succeeded)
  /\ Cardinality(ValidCandidates) <= MaxPerDay

DeliveredExactlyValid ==
  /\ sentEmails = {Candidates[i].email : i \in ValidCandidates}
  /\ batchCalls = Cardinality(ValidCandidates)
  /\ dailyCount = Cardinality(ValidCandidates)

(* C13 (as claimed): no transport call, retry or quota for an ill-formed    *)
(* address; a batch of n well-formed and m ill-formed fresh candidates     *)
(* with maxPerDay >= n and a transport that always succeeds ends with      *)
(* exactly the n sent, n transport calls and dailyCount = n.               *)
C13_InvalidCostsNothing ==
  /\ InCall => CurAgent.email \in WellFormed
  /\ FreshBatchAllDelivered => DeliveredExactlyValid

(* C13 (amended): the same, for a batch that runs within one calendar day   *)
(* and whose candidate list is not cut by the batch cap                    *)
(* (maxEmails, or maxPerDay when none is given).                           *)
C13_InvalidCostsNothingUncut ==
  /\ InCall => CurAgent.email \in WellFormed
  /\ (FreshBatchAllDelivered /\ today = startDay /\ Len(agentsToEmail) = Len(Candidates))
        => DeliveredExactlyValid

(* a well-formed and an ill-formed candidate, both processed: one sent *)
C13_Witness ==
  /\ FreshBatchAllDelivered
  /\ today = startDay
  /\ Len(agentsToEmail) = Len(Candidates)
  /\ Len(results) = 2
  /\ Cardinality(ValidCandidates) = 1
  /\ \E i \in 1..2 : Reason(results[i].result) = "Invalid email"
  /\ dailyCount = 1

(* C14 (as claimed): a candidate refused as 'Invalid email' is in           *)
(* failedEmails from then on.                                              *)
C14_InvalidRecordedFailed ==
  \A i \in 1..Len(results) :
     Reason(results[i].result) = "Invalid email" => results[i].agent.email \in failedEmails

DiskSent == IF disk.exists THEN disk.sentEmails ELSE {}

DiskFailed == IF disk.exists THEN disk.failedEmails ELSE {}

(* C15: while no ledger write of the process has failed, the file holds     *)
(* the sent and failed sets of memory at every point, so that only the     *)
(* outcome between transport and recording can be missing from it; and     *)
(* when the inter-send delay of an attempted candidate begins, the file is *)
(* the full snapshot of memory with that candidate's outcome in it.        *)
C15_SavedBeforeDelay ==
  /\ ~writeFailed => (DiskSent = sentEmails /\ DiskFailed = failedEmails)
  /\ ~writeFailed =>
        {e \in EmailPool : instSends[e] > 0} \ DiskSent
           \subseteq (IF pc = "record" /\ pending.success THEN {CurAgent.email} ELSE {})
  /\ (pc = "delay" /\ ~writeFailed) =>
        /\ disk = Snapshot(sentEmails, failedEmails, dailyCount, lastResetDate)
        /\ CurAgent.email \in (IF pending.success THEN DiskSent ELSE DiskFailed)

(* the second candidate's delay begins: both outcomes, one sent and one    *)
(* failed, are in the file                                                 *)
C15_Witness ==
  /\ pc = "delay"
  /\ ~writeFailed
  /\ Len(results) = 1
  /\ results[1].result.success
  /\ ~pending.success
  /\ DiskSent = {results[1].agent.email}
  /\ DiskFailed = {CurAgent.email}

(* C16: once a ledger write has failed, the outcome of an attempted         *)
(* candidate is still in memory when its delay begins (the address in its  *)
(* set, dailyCount counted), the call returns its normal result, and every *)
(* attempted candidate of the batch so far is in the in-memory set its     *)
(* result names.                                                           *)
C16_WriteFailureSwallowed ==
  /\ []((pc = "delay" /\ writeFailed) =>
          /\ CurAgent.email \in (IF pending.success THEN sentEmails ELSE failedEmails)
          /\ dailyCount = (IF rolled THEN 0 ELSE entryCount) + (IF pending.success THEN 1 ELSE 0))
  /\ []((writeFailed /\ pc \in {"loop", "sending", "backoff", "record", "delay", "done"}) =>
          \A i \in 1..Len(results) :
             /\ results[i].result.success => results[i].agent.email \in sentEmails
             /\ "error" \in DOMAIN results[i].result => results[i].agent.email \in failedEmails)
  /\ [][(pc = "delay" /\ writeFailed /\ faults' = faults /\ pc' # "delay")
          => results' = Append(results, [agent |-> CurAgent, result |-> pending])]_vars

(* the write after a successful send failed; the batch went on and skipped *)
(* the same address as already sent, from memory: the file does not have it*)
C16_Witness ==
  /\ writeFailed
  /\ mode = "bulk"
  /\ Len(results) = 2
  /\ results[1].result.success
  /\ Reason(results[2].result) = "Already sent"
  /\ results[1].agent.email \notin DiskSent
  /\ results[1].agent.email \in sentEmails

(* C17 (as claimed): clearEmailLog leaves both sets empty, dailyCount 0,    *)
(* lastResetDate today and the file holding that same empty state;         *)
(* resetDailyCounter changes dailyCount and lastResetDate only.            *)
C17_ClearAndReset ==
  [][/\ (\E w \in BOOLEAN : ClearEmailLog(w)) =>
          /\ sentEmails' = {} /\ failedEmails' = {}
          /\ dailyCount' = 0 /\ lastResetDate' = today
          /\ disk' = Snapshot({}, {}, 0, today)
     /\ (\E w \in BOOLEAN : ResetDailyCounter(w)) =>
          /\ dailyCount' = 0 /\ lastResetDate' = today
          /\ UNCHANGED <<sentEmails, failedEmails>>]_vars

(* C17 (amended): the same, except that the file holds the new state only   *)
(* when the write succeeds; when it fails the file keeps what it held.     *)
C17_ClearAndResetBestEffort ==
  [][\A w \in BOOLEAN :
       /\ ClearEmailLog(w) =>
            /\ sentEmails' = {} /\ failedEmails' = {}
            /\ dailyCount' = 0 /\ lastResetDate' = today
            /\ disk' = (IF w THEN Snapshot({}, {}, 0, today) ELSE disk)
       /\ ResetDailyCounter(w) =>
            /\ dailyCount' = 0 /\ lastResetDate' = today
            /\ UNCHANGED <<sentEmails, failedEmails>>
            /\ disk' = (IF w THEN Snapshot(sentEmails, failedEmails, 0, today) ELSE disk)]_vars

(* after a send, clearEmailLog has emptied memory and file *)
C17_Witness ==
  /\ pc = "idle"
  /\ admin = 1
  /\ faults = 0
  /\ sendsToday > 0
  /\ Ledger = {}
  /\ dailyCount = 0
  /\ lastResetDate = today
  /\ disk = Snapshot({}, {}, 0, today)

(* the candidates of the batch so far that were passed to the transport,   *)
(* those whose attempts were exhausted, and those skipped with a reason    *)
Attempted == {i \in 1..Len(results) : "reason" \notin DOMAIN results[i].result}

Exhausted == {i \in 1..Len(results) : "error" \in DOMAIN results[i].result}

Skipped == {i \in 1..Len(results) : "reason" \in DOMAIN results[i].result}

(* C18 (as claimed): in sendBulkEmails the subject index is in 0..4 and is  *)
(* the number of attempted candidates so far modulo 5: a skipped candidate *)
(* does not advance it.                                                    *)
C18_SubjectAdvancesPerAttempt ==
  (mode = "bulk" /\ pc \in {"loop", "done"}) =>
     /\ subjectIndex \in 0..(SubjectCount - 1)
     /\ subjectIndex = Cardinality(Attempted) % SubjectCount

(* C19: in a batch the transport is called for candidates in list order;    *)
(* a call for a later candidate than the previous call has exactly one     *)
(* delay of config.email.delay since that call, whether the earlier        *)
(* candidate was sent or failed for good; a further call for the same      *)
(* candidate has only its retry backoff since the previous call.           *)
C19_OrderAndInterSendDelay ==
  (pc = "sending" /\ mode = "bulk" /\ lastCallIdx # 0) =>
     IF lastCallIdx = Len(results) + 1
     THEN sinceLast = <<BackoffBase * (attempt - 1)>>
     ELSE /\ lastCallIdx < Len(results) + 1
          /\ sinceLast = <<EmailDelay>>

(* the first candidate failed for good after all its attempts; the call    *)
(* for the second comes one inter-send delay later                         *)
C19_Witness ==
  /\ pc = "sending"
  /\ mode = "bulk"
  /\ Len(results) = 1
  /\ lastCallIdx = 1
  /\ Exhausted = {1}
  /\ batchCalls = RetryAttempts
  /\ sinceLast = <<EmailDelay>>

(* C20 (as claimed): the object sendBulkEmails returns counts the skipped   *)
(* candidates apart from the failed ones: failed is the number of          *)
(* candidates whose attempts were exhausted, the total reported as         *)
(* attempted is successful + failed, and a skipped count makes up the rest *)
(* of the candidates processed.                                            *)
C20_SkippedCountedApart ==
  (pc = "done" /\ mode = "bulk" /\ "results" \in DOMAIN runResult) =>
     /\ runResult.failed = Cardinality(Exhausted)
     /\ runResult.total = runResult.successful + Cardinality(Exhausted)
     /\ "skipped" \in DOMAIN runResult
     /\ runResult.skipped = Cardinality(Skipped)

(* C29: in sequential operation, from the empty ledger or from a loaded     *)
(* snapshot, no address is in sentEmails and in failedEmails at once, and  *)
(* no written snapshot lists an address in both of its lists.              *)
C29_SentFailedDisjoint ==
  /\ sentEmails \cap failedEmails = {}
  /\ DiskSent \cap DiskFailed = {}

(* a process started from a snapshot with a sent address holds a sent and  *)
(* a failed address after a further run over two candidates                *)
C29_Witness ==
  /\ loadedSent # {}
  /\ sentEmails # {}
  /\ failedEmails # {}
  /\ pc = "done"
  /\ Len(results) = 2

(* the identity an address denotes when letter case and surrounding white  *)
(* space are ignored                                                       *)
Identity(email) == ToLowerCase(Trim(email))

(* C30 (as claimed): while an address is in sentEmails, no transport call   *)
(* is made or pending for an address of the same identity.  Stated for     *)
(* operation without clear, termination or failed write.                   *)
C30_IdentityIgnoresCase ==
  (InCall /\ admin = 0 /\ faults = 0) =>
     \A e \in sentEmails : Identity(e) # Identity(CurAgent.email)

(* the collectors of the current parallel run whose scrape() threw *)
FailedCollectors == {c \in Collectors : cstate[c] = "caught"}

Range(q) == {q[i] : i \in 1..Len(q)}

(* C21: in the parallel run, when the dedup pass has its input, every       *)
(* collector has either returned or failed, and the input holds all        *)
(* records of every collector that returned and nothing else; and the step *)
(* in which a collector fails leaves the run waiting for the others and    *)
(* leaves their state and output as they were.                             *)
C21_InputComplete ==
  (variant = "parallel" /\ aggPc = "saving") =>
     /\ \A c \in Collectors : cstate[c] \in {"returned", "caught"}
     /\ \A c \in Collectors : cstate[c] = "returned" => Range(cvalue[c]) \subseteq Range(mergedAgents)
     /\ Len(mergedAgents) = Len(cvalue["Realtor"]) + Len(cvalue["Zillow"])
     /\ \A c \in FailedCollectors : cvalue[c] = <<>>

C21_FailureStep ==
  \A c \in Collectors :
     CollectorThrows(c) =>
        /\ aggPc' = "scraping"
        /\ \A d \in Collectors \ {c} : cstate'[d] = cstate[d] /\ cvalue'[d] = cvalue[d]
        /\ mergedAgents' = mergedAgents
        /\ store' = store

(* the sequential run: a scraper that throws adds nothing and the loop     *)
(* moves on to the next scraper or to processResults                       *)
C21_SeqFailureStep ==
  \A raw \in RawLists :
     RunScraper(raw, TRUE) =>
        /\ aggPc' = IF scraperIdx < Len(Scrapers) THEN "scraper" ELSE "process"
        /\ allAgents' = allAgents
        /\ store' = store

C21_FailureIsolated == [](C21_InputComplete) /\ [][C21_FailureStep /\ C21_SeqFailureStep]_vars

(* Realtor threw first; Zillow still returned a record, which is the input *)
(* of the dedup pass                                                       *)
C21_Witness ==
  /\ variant = "parallel"
  /\ aggPc = "saving"
  /\ finishOrder = <<"Realtor", "Zillow">>
  /\ cstate["Realtor"] = "caught"
  /\ cstate["Zillow"] = "returned"
  /\ cvalue["Zillow"] # <<>>
  /\ mergedAgents = cvalue["Zillow"]

(* C22 (as claimed): after the collectors of the first parallel run have    *)
(* settled, stats.errors holds one entry for each collector that failed.   *)
C22_FailureReported ==
  (variant = "parallel" /\ aggPc = "saving" /\ aggRuns = 1) =>
     statsErrors = Cardinality(FailedCollectors)

(* C23: the list handed to removeDuplicates is Realtor's output followed by *)
(* Zillow's, whichever finished first, and while a collector is still      *)
(* running nothing has been merged or deduplicated.                        *)
C23_RegistrationOrder ==
  /\ (variant = "parallel" /\ aggPc = "saving") =>
        /\ mergedAgents = cvalue["Realtor"] \o cvalue["Zillow"]
        /\ \A c \in Collectors : cstate[c] # "running"
  /\ (variant = "parallel" /\ aggPc = "scraping") =>
        /\ mergedAgents = <<>>
        /\ uniqueAgents = <<>>

(* Zillow finished before Realtor, each with a different record *)
C23_Witness ==
  /\ variant = "parallel"
  /\ aggPc = "saving"
  /\ finishOrder = <<"Zillow", "Realtor">>
  /\ cvalue["Realtor"] # <<>>
  /\ cvalue["Zillow"] # <<>>
  /\ cvalue["Realtor"] # cvalue["Zillow"]
  /\ mergedAgents[1] = cvalue["Realtor"][1]

(* the composite key of email, name and city with letter case ignored *)
NormKey(agent) == <<ToLowerCase(agent.email), ToLowerCase(agent.name), ToLowerCase(agent.city)>>

(* the records of a list that are the first of their key, in list order *)
FirstOfEachKey(list) ==
  SelectSeq([i \in 1..Len(list) |-> [rec |-> list[i], first |-> \A j \in 1..(i - 1) : NormKey(list[j]) # NormKey(list[i])]],
            LAMBDA x : x.first)

(* C24 (as claimed): removeDuplicates returns, in input order, exactly the  *)
(* first record of each case-insensitive key of email, name and city.      *)
C24_DedupByNormalizedKey ==
  (variant = "parallel" /\ aggPc = "saving") =>
     uniqueAgents = MapSeq(LAMBDA x : x.rec, FirstOfEachKey(mergedAgents))

(* C25 (as claimed): no two rows of the record store share a dedup key,     *)
(* taken here as the very key string removeDuplicates builds (rows equal   *)
(* under it are equal under every normalisation of it).                    *)
C25_StoreHasNoDuplicates ==
  \A i, j \in 1..Len(store) : dedupKey(store[i]) = dedupKey(store[j]) => i = j

(* C26 (as claimed): every row of the record store has a name and a state   *)
(* of the allowed set.  Stated for a first run in which the Realtor        *)
(* collector contributed nothing.                                          *)
C26_StoredRecordsValid ==
  (aggRuns = 1 /\ cvalue["Realtor"] = <<>>) =>
     \A i \in 1..Len(store) : store[i].name # <<>> /\ Trim(ToUpperCase(store[i].state)) \in usStates

(* C27 (as claimed): with more candidates than the cap of one request,      *)
(* repeated requests on successive days eventually bring every valid       *)
(* candidate to a transport attempt, i.e. into the ledger.                 *)
C27_EveryCandidateAttempted ==
  <>(\A i \in ValidCandidates : Candidates[i].email \in Ledger)

(* C28 (as claimed): with two requests overlapping on the one EmailService, *)
(* no address gets two successful transport sends and dailyCount never     *)
(* exceeds maxPerDay.                                                      *)
C28_OverlapSafe ==
  /\ \A e \in EmailPool : instSends[e] <= 1
  /\ dailyCount <= MaxPerDay

====
